---- MODULE Spec2Model ----
(***************************************************************************)
(* Model of main.py: the Drive synchronisation utility.                    *)
(*                                                                         *)
(* sync_from_file reads the manifest, and for each entry of "details"      *)
(* loads the credentials, builds a ServiceAccount, syncs every file of     *)
(* the group and rewrites the manifest.  ServiceAccount.sync uploads a     *)
(* file that has no id, and otherwise compares the two modification times  *)
(* and updates, downloads or does nothing.                                 *)
(*                                                                         *)
(* Time.  st_mtime is counted in ticks of half a microsecond, a datetime   *)
(* in microseconds, the modifiedTime string of the Drive in milliseconds.  *)
(* The Drive stamps a created or updated object with its clock, the local  *)
(* filesystem stamps a written file with its clock; both clocks are `now`, *)
(* which moves on by a little over a millisecond with every file synced    *)
(* and between two runs.                                                   *)
(***************************************************************************)
EXTENDS Integers, Sequences, FiniteSets, TLC

VARIABLES pc, exc, run, disk, manifest0, sync_details, gi, fi,
          drive, mtime, now, created, calls, targets

vars == <<pc, exc, run, disk, manifest0, sync_details, gi, fi,
          drive, mtime, now, created, calls, targets>>

(* ---- bounds ---- *)
MaxGroups == 2
MaxFiles == 2
MaxRuns == 2
MaxSkew == 5
MaxRemoteStamp == 2

(* ---- values ---- *)
None == "None"

Put(d, k, v) == [j \in DOMAIN d \cup {k} |-> IF j = k THEN v ELSE d[j]]

Drop(d, k) == [j \in DOMAIN d \ {k} |-> d[j]]

get(d, k, default) == IF k \in DOMAIN d THEN d[k] ELSE default

Syncable(path, file_id) == [path |-> path, id |-> file_id]

(* ---- conversions ---- *)
\* datetime.fromtimestamp: a float of seconds to a datetime of microsecond
\* resolution, rounding half to even.
fromtimestamp(ticks) ==
    LET q == ticks \div 2
    IN  IF ticks % 2 = 0 THEN q
        ELSE IF q % 2 = 0 THEN q ELSE q + 1

\* datetime.fromisoformat of the Drive's "....mmmZ" string: exact.
fromisoformat(ms) == ms * 1000

\* The Drive's clock reading, as it is written into modifiedTime.
ServerStamp == now \div (2 * 1000)

\* json.load of the text on disk, json.dump(..., indent=4) of a document.
json_load(text) == text.value

json_dump(doc) == [kind |-> "json", indent |-> 4, value |-> doc]

NewId(n) == "id" \o ToString(n)

(* ---- ServiceAccount ---- *)
Res(ok, id, ops, dr, mt, cr) ==
    [ok |-> ok, id |-> id, ops |-> ops, drive |-> dr, mtime |-> mt, created |-> cr]

Op(name, ret) == [op |-> name, ret |-> ret]

\* upload without `file.id = ...`: the returned id is dropped.
upload_noid(file, fault) ==
    IF fault = "media" THEN Res(FALSE, file.id, <<>>, drive, mtime, created)
    ELSE IF fault = "create"
         THEN Res(FALSE, file.id, <<Op("create", None)>>, drive, mtime, created)
    ELSE LET new == NewId(created + 1)
         IN  Res(TRUE, file.id, <<Op("create", new)>>,
                 Put(drive, new, ServerStamp), mtime, created + 1)

\* MediaFileUpload opens the local file; files().create(...).execute()
\* returns the new object's id, which becomes file.id.
upload(file, fault) ==
    IF fault = "media" THEN Res(FALSE, file.id, <<>>, drive, mtime, created)
    ELSE IF fault = "create"
         THEN Res(FALSE, file.id, <<Op("create", None)>>, drive, mtime, created)
    ELSE LET new == NewId(created + 1)
         IN  Res(TRUE, new, <<Op("create", new)>>, Put(drive, new, ServerStamp),
                 mtime, created + 1)

update(file, fault) ==
    IF fault = "media" THEN Res(FALSE, file.id, <<>>, drive, mtime, created)
    ELSE IF fault = "update"
         THEN Res(FALSE, file.id, <<Op("update", None)>>, drive, mtime, created)
    ELSE Res(TRUE, file.id, <<Op("update", file.id)>>,
             Put(drive, file.id, ServerStamp), mtime, created)

download(file, fault) ==
    IF fault = "get_media"
    THEN Res(FALSE, file.id, <<Op("get_media", None)>>, drive, mtime, created)
    ELSE IF fault = "write_bytes"
         THEN Res(FALSE, file.id,
                  <<Op("get_media", file.id), Op("write_bytes", None)>>,
                  drive, mtime, created)
    ELSE Res(TRUE, file.id,
             <<Op("get_media", file.id), Op("write_bytes", file.path)>>,
             drive, Put(mtime, file.path, now), created)

last_mod(file, fault) ==
    IF fault = "get" \/ file.id \notin DOMAIN drive
    THEN [ok |-> FALSE, ops |-> <<Op("get", None)>>, local |-> 0, remote |-> 0]
    ELSE IF fault = "stat"
         THEN [ok |-> FALSE, ops |-> <<Op("get", drive[file.id])>>,
               local |-> 0, remote |-> 0]
    ELSE [ok |-> TRUE, ops |-> <<Op("get", drive[file.id])>>,
          local |-> fromtimestamp(mtime[file.path]),
          remote |-> fromisoformat(drive[file.id])]

After(ops, r) == [r EXCEPT !.ops = ops \o r.ops]

\* sync comparing with >= in place of >.
sync_ge(file, fault) ==
    IF file.id = None THEN upload(file, fault)
    ELSE LET lm == last_mod(file, fault)
         IN  IF ~lm.ok
             THEN Res(FALSE, file.id, lm.ops, drive, mtime, created)
             ELSE IF lm.local >= lm.remote THEN After(lm.ops, update(file, fault))
             ELSE IF lm.local < lm.remote THEN After(lm.ops, download(file, fault))
             ELSE Res(TRUE, file.id, lm.ops, drive, mtime, created)

\* sync calling upload in place of update when the local file is newer.
sync_reupload(file, fault) ==
    IF file.id = None THEN upload(file, fault)
    ELSE LET lm == last_mod(file, fault)
         IN  IF ~lm.ok
             THEN Res(FALSE, file.id, lm.ops, drive, mtime, created)
             ELSE IF lm.local > lm.remote THEN After(lm.ops, upload(file, fault))
             ELSE IF lm.local < lm.remote THEN After(lm.ops, download(file, fault))
             ELSE Res(TRUE, file.id, lm.ops, drive, mtime, created)

sync(file, fault) ==
    IF file.id = None THEN upload(file, fault)
    ELSE LET lm == last_mod(file, fault)
         IN  IF ~lm.ok
             THEN Res(FALSE, file.id, lm.ops, drive, mtime, created)
             ELSE IF lm.local > lm.remote THEN After(lm.ops, update(file, fault))
             ELSE IF lm.local < lm.remote THEN After(lm.ops, download(file, fault))
             ELSE Res(TRUE, file.id, lm.ops, drive, mtime, created)

Faults == {"none", "media", "create", "get", "stat", "update", "get_media",
           "write_bytes"}

\* service_account.Credentials.from_service_account_file succeeds on a
\* well-formed key file only.
credentials_from_file(path) == path = "key.json"

(* ---- sync_from_file ---- *)
Call(op, g, f, ret) == [run |-> run, op |-> op, g |-> g, f |-> f, ret |-> ret]

Log(ops, g, f) == [i \in 1..Len(ops) |-> Call(ops[i].op, g, f, ops[i].ret)]

\* The credentials of the following group are loaded ahead.
credentials_call_ahead(g) ==
    <<Call("credentials", g, 0, None), Call("credentials", g + 1, 0, None)>>

\* credentials_from_file, then build(...) in ServiceAccount.__init__.
credentials_call(g) == <<Call("credentials", g, 0, None)>>

build_call(g) == <<Call("build", g, 0, None)>>

\* The entry is rebuilt from path and id, its other keys are lost.
set_id_rebuilt(doc, g, f, id) ==
    [doc EXCEPT !["details"][g]["files"][f] = [path |-> @["path"], id |-> id]]

\* file_detail["id"] = file.id
set_id(doc, g, f, id) ==
    [doc EXCEPT !["details"][g]["files"][f] = Put(@, "id", id)]

\* The exception is recorded and swallowed.
Raise_swallowed(kind) ==
    /\ pc' = pc
    /\ exc' = kind

\* An exception that nothing catches leaves sync_from_file.
Raise(kind) ==
    /\ pc' = "error"
    /\ exc' = kind

files_details == sync_details["details"][gi]["files"]

\* with sync_json.open() as f: sync_details = json.load(f); the iterable of
\* the for statement is evaluated next.
ReadManifest ==
    /\ pc = "start"
    /\ IF disk.kind = "missing"
       THEN /\ Raise("FileNotFoundError")
            /\ UNCHANGED <<sync_details, calls>>
       ELSE IF disk.kind = "malformed"
       THEN /\ Raise("JSONDecodeError")
            /\ calls' = Append(calls, Call("load", 0, 0, None))
            /\ UNCHANGED sync_details
       ELSE /\ sync_details' = json_load(disk)
            /\ calls' = Append(calls, Call("load", 0, 0, None))
            /\ IF "details" \in DOMAIN json_load(disk)
               THEN pc' = "loop" /\ exc' = exc
               ELSE Raise("KeyError")
    /\ gi' = 1
    /\ UNCHANGED <<run, disk, manifest0, fi, drive, mtime, now, created, targets>>

\* The head of one iteration of `for details in sync_details["details"]`:
\* credentials, ServiceAccount, files_details.
BeginGroup ==
    /\ pc = "loop"
    /\ gi <= Len(sync_details["details"])
    /\ LET details == sync_details["details"][gi]
       IN  IF "credentials_file" \notin DOMAIN details
           THEN Raise("KeyError") /\ UNCHANGED calls
           ELSE IF ~credentials_from_file(details["credentials_file"])
           THEN /\ Raise("CredentialsError")
                /\ calls' = calls \o credentials_call(gi)
           ELSE IF "root_folder" \notin DOMAIN details
           THEN /\ Raise("KeyError")
                /\ calls' = calls \o credentials_call(gi)
           ELSE IF "files" \notin DOMAIN details
           THEN /\ Raise("KeyError")
                /\ calls' = calls \o credentials_call(gi) \o build_call(gi)
           ELSE /\ pc' = "files"
                /\ exc' = exc
                /\ calls' = calls \o credentials_call(gi) \o build_call(gi)
    /\ fi' = 1
    /\ UNCHANGED <<run, disk, manifest0, sync_details, gi, drive, mtime, now,
                   created, targets>>

\* One iteration of `for file, file_detail in zip(files, files_details)`:
\* the lazy map builds the Syncable, service.sync(file), file_detail["id"].
SyncFile ==
    /\ pc = "files"
    /\ fi <= Len(files_details)
    /\ \E fault \in Faults :
         LET file_detail == files_details[fi]
         IN  IF "path" \notin DOMAIN file_detail
             THEN /\ Raise("KeyError")
                  /\ UNCHANGED <<sync_details, fi, drive, mtime, created, calls,
                                 targets>>
             ELSE LET file == Syncable(file_detail["path"],
                                       get(file_detail, "id", None))
                      r == sync(file, fault)
                  IN  /\ calls' = calls \o Log(r.ops, gi, fi)
                      /\ drive' = r.drive
                      /\ mtime' = r.mtime
                      /\ created' = r.created
                      /\ IF r.ok
                         THEN /\ sync_details' =
                                   set_id(sync_details, gi, fi, r.id)
                              /\ targets' = Append(targets,
                                   [run |-> run, g |-> gi, f |-> fi,
                                    path |-> file.path, id0 |-> file.id,
                                    id |-> r.id,
                                    st_mtime |-> mtime[file.path],
                                    modifiedTime |-> get(drive, file.id, 0)])
                              /\ fi' = fi + 1
                              /\ UNCHANGED <<pc, exc>>
                         ELSE /\ Raise("SyncError")
                              /\ UNCHANGED <<sync_details, targets, fi>>
    /\ now' = now + 2 * 1000 + 1
    /\ UNCHANGED <<run, disk, manifest0, gi>>

\* The write dedented out of the group loop: once, after the last group.
WriteManifest_once ==
    /\ pc = "files"
    /\ fi > Len(files_details)
    /\ IF gi = Len(sync_details["details"])
       THEN /\ disk' = json_dump(sync_details)
            /\ calls' = Append(calls, Call("dump", gi, 0, None))
       ELSE UNCHANGED <<disk, calls>>
    /\ gi' = gi + 1
    /\ pc' = "loop"
    /\ UNCHANGED <<exc, run, manifest0, sync_details, fi, drive, mtime, now,
                   created, targets>>

\* The file loop is exhausted: with sync_json.open("w") as f: json.dump(...).
WriteManifest ==
    /\ pc = "files"
    /\ fi > Len(files_details)
    /\ disk' = json_dump(sync_details)
    /\ calls' = Append(calls, Call("dump", gi, 0, None))
    /\ gi' = gi + 1
    /\ pc' = "loop"
    /\ UNCHANGED <<exc, run, manifest0, sync_details, fi, drive, mtime, now,
                   created, targets>>

\* The group loop is exhausted: sync_from_file returns.
Return ==
    /\ pc = "loop"
    /\ gi > Len(sync_details["details"])
    /\ pc' = "done"
    /\ UNCHANGED <<exc, run, disk, manifest0, sync_details, gi, fi, drive,
                   mtime, now, created, calls, targets>>

\* main() is run again on the manifest the previous run left.
Rerun ==
    /\ pc = "done"
    /\ run < MaxRuns
    /\ run' = run + 1
    /\ pc' = "start"
    /\ manifest0' = disk
    /\ now' = now + 2 * 1000 + 1
    /\ UNCHANGED <<exc, disk, sync_details, gi, fi, drive, mtime, created,
                   calls, targets>>

(* ---- initial states ---- *)
\* The kinds of file entry: not yet uploaded (null id, and an unknown key),
\* not yet uploaded (no id key), uploaded.
ValidEntries ==
    << [path |-> "a", id |-> None, note |-> "n"],
       [path |-> "b"],
       [path |-> "c", id |-> "X"] >>

Entry(g, f, s) == ValidEntries[((g + f + s) % Len(ValidEntries)) + 1]

\* A manifest of Len(m) groups, group g of m[g] files, with unknown keys at
\* each level.
Doc(m, s) ==
    [details |->
       [g \in DOMAIN m |->
          [credentials_file |-> "key.json", root_folder |-> "root",
           files |-> [f \in 1..m[g] |-> Entry(g, f, s)], tag |-> "t"]],
     version |-> "1"]

ValidDocs ==
    { Doc(m, s) : m \in UNION {[1..n -> 0..MaxFiles] : n \in 0..MaxGroups},
                  s \in 1..Len(ValidEntries) }

GroupFaults(doc) ==
    UNION { { [doc EXCEPT !["details"][g] = bad] :
              bad \in { Drop(doc["details"][g], "credentials_file"),
                        Put(doc["details"][g], "credentials_file", "bad.json"),
                        Drop(doc["details"][g], "root_folder"),
                        Drop(doc["details"][g], "files") } } :
            g \in 1..Len(doc["details"]) }

FileFaults(doc) ==
    UNION { { [doc EXCEPT !["details"][g]["files"][f] =
                  Drop(doc["details"][g]["files"][f], "path")] :
              f \in 1..Len(doc["details"][g]["files"]) } :
            g \in 1..Len(doc["details"]) }

Docs == UNION { {doc, Drop(doc, "details")} \cup GroupFaults(doc) \cup FileFaults(doc) :
                doc \in ValidDocs }

Texts == { [kind |-> "missing"], [kind |-> "malformed"] }
           \cup { [kind |-> "json", indent |-> 2, value |-> doc] : doc \in Docs }

\* The st_mtime values around the instant of a modifiedTime of `ms`.
LocalStamps(ms) == { 2 * fromisoformat(ms) - 2 + d : d \in 0..MaxSkew }

OneFile ==
    { [kind |-> "json", indent |-> 2,
       value |-> [details |-> <<[credentials_file |-> "key.json",
                                 root_folder |-> "root", files |-> <<e>>]>>]] :
      e \in {ValidEntries[k] : k \in DOMAIN ValidEntries} }

InitCommon ==
    /\ pc = "start"
    /\ exc = None
    /\ run = 1
    /\ manifest0 = disk
    /\ sync_details = None
    /\ gi = 1
    /\ fi = 1
    /\ created = 0
    /\ calls = <<>>
    /\ targets = <<>>
    /\ now = 2 * fromisoformat(MaxRemoteStamp + 1) + 1

\* Any manifest, the local file older or newer than the remote object.
InitRun ==
    /\ disk \in Texts
    /\ drive = [i \in {"X"} |-> 1]
    /\ \E c \in {2 * fromisoformat(1) - 2, 2 * fromisoformat(1) + 2} :
         mtime = [p \in {"a", "b", "c"} |-> IF p = "c" THEN c ELSE 2]

\* One file, every relation of the two modification times.
InitSync ==
    /\ disk \in OneFile
    /\ \E ms \in 1..MaxRemoteStamp, c \in LocalStamps(MaxRemoteStamp) :
         /\ drive = [i \in {"X"} |-> ms]
         /\ mtime = [p \in {"a", "b", "c"} |-> IF p = "c" THEN c ELSE 2]

Init == (InitRun \/ InitSync) /\ InitCommon

Next ==
    \/ ReadManifest
    \/ BeginGroup
    \/ SyncFile
    \/ WriteManifest
    \/ Return
    \/ Rerun

Spec == Init /\ [][Next]_vars

(* ---- what the run has done ---- *)
Count(op, r, g, f) ==
    Cardinality({ i \in DOMAIN calls :
                    /\ calls[i].run = r /\ calls[i].op = op
                    /\ calls[i].g = g /\ calls[i].f = f })

CountT(op, t) == Count(op, t.run, t.g, t.f)

Dumps(r) == { i \in DOMAIN calls : calls[i].run = r /\ calls[i].op = "dump" }

Loads(r) == { i \in DOMAIN calls : calls[i].run = r /\ calls[i].op = "load" }

RemoteOps == {"create", "get", "update", "get_media"}

Entry0(g, f) == json_load(manifest0)["details"][g]["files"][f]

Positions(doc) ==
    { <<g, f>> \in (1..MaxGroups + 1) \X (1..MaxFiles + 1) :
        /\ g <= Len(doc["details"])
        /\ f <= Len(get(doc["details"][g], "files", <<>>)) }

IdsOnDisk ==
    { get(json_load(disk)["details"][p[1]]["files"][p[2]], "id", None) :
        p \in Positions(json_load(disk)) }

ConfigErrors == {"FileNotFoundError", "JSONDecodeError", "KeyError",
                 "CredentialsError"}

(* ---- C1 ---- *)
\* C1: a completed sync of a target that has a remote id makes no create,
\* and exactly one update and no download when the local datetime is later
\* than the remote one, exactly one download and no update when it is
\* earlier, neither when the two are equal.
C1_Directionality ==
    \A i \in DOMAIN targets :
      LET t == targets[i]
          local == fromtimestamp(t.st_mtime)
          remote == fromisoformat(t.modifiedTime)
      IN  t.id0 # None =>
            /\ CountT("create", t) = 0
            /\ local > remote =>
                 CountT("update", t) = 1 /\ CountT("get_media", t) = 0
                 /\ CountT("write_bytes", t) = 0
            /\ local < remote =>
                 CountT("get_media", t) = 1 /\ CountT("write_bytes", t) = 1
                 /\ CountT("update", t) = 0
            /\ local = remote =>
                 CountT("update", t) = 0 /\ CountT("get_media", t) = 0
                 /\ CountT("write_bytes", t) = 0

C1_Witness ==
    \E i \in DOMAIN targets :
      /\ targets[i].id0 # None
      /\ fromtimestamp(targets[i].st_mtime) > fromisoformat(targets[i].modifiedTime)
      /\ CountT("update", targets[i]) = 1

(* ---- C2 ---- *)
\* C2: a completed sync of a target without a remote id has made exactly
\* one create and no modified-time query, update or download, and the
\* target's id is the id that create returned; a sync of such a target
\* that failed has made no call other than the create.
C2_FirstSync ==
    /\ \A i \in DOMAIN targets :
         LET t == targets[i]
         IN  t.id0 = None =>
               /\ CountT("create", t) = 1
               /\ CountT("get", t) = 0 /\ CountT("update", t) = 0
               /\ CountT("get_media", t) = 0 /\ CountT("write_bytes", t) = 0
               /\ t.id # None
               /\ \E j \in DOMAIN calls :
                    /\ calls[j].run = t.run /\ calls[j].op = "create"
                    /\ calls[j].g = t.g /\ calls[j].f = t.f
                    /\ calls[j].ret = t.id
    /\ \A j \in DOMAIN calls :
         (calls[j].run = run /\ calls[j].f > 0
            /\ get(Entry0(calls[j].g, calls[j].f), "id", None) = None)
         => calls[j].op = "create"

C2_Witness ==
    \E i \in DOMAIN targets :
      /\ targets[i].id0 = None
      /\ targets[i].id \in DOMAIN drive
      /\ CountT("create", targets[i]) = 1

(* ---- C3 ---- *)
\* C3: the second of two runs makes no create, update or download for a
\* target that had a remote id before the first run.
C3_Idempotent ==
    \A j \in DOMAIN calls :
      (calls[j].run > 1
         /\ \E i \in DOMAIN targets :
              /\ targets[i].run = 1 /\ targets[i].id0 # None
              /\ targets[i].g = calls[j].g /\ targets[i].f = calls[j].f)
      => calls[j].op \notin {"create", "update", "get_media"}

(* ---- C4 ---- *)
\* C4 as stated: a run that returns has read the manifest once and written
\* it once, as its last step.
C4_WrittenOnce ==
    pc = "done" =>
      /\ Cardinality(Loads(run)) = 1
      /\ Cardinality(Dumps(run)) = 1
      /\ calls[Len(calls)].op = "dump"

\* C4 amended: the manifest, when it can be opened, is read once, before
\* anything else of the run,
\* and written once for each group, after every call for that group and the
\* groups before it and before any call for a later group; a run over n
\* groups that returns has written it n times, never between two files of
\* a group.
C4_WrittenPerGroup ==
    /\ \A r \in 1..run :
         /\ Cardinality(Loads(r)) <= 1
         /\ \A i \in Loads(r) : \A j \in DOMAIN calls :
              calls[j].run = r => i <= j
         /\ \A i \in Dumps(r) : \A j \in DOMAIN calls \ {i} :
              calls[j].run = r =>
                /\ calls[j].g <= calls[i].g => j < i
                /\ calls[j].g > calls[i].g => j > i
                /\ calls[j].g # calls[i].g \/ calls[j].op # "dump"
    /\ pc \notin {"start", "error"} => Cardinality(Loads(run)) = 1
    /\ pc = "done" =>
         /\ Cardinality(Dumps(run)) = Len(sync_details["details"])
         /\ \A g \in 1..Len(sync_details["details"]) : Count("dump", run, g, 0) = 1

C4_Witness ==
    /\ pc = "done"
    /\ Len(sync_details["details"]) = 2
    /\ Cardinality(Dumps(run)) = 2
    /\ \E i \in DOMAIN targets : targets[i].run = run /\ targets[i].g = 2

(* ---- C5 ---- *)
\* C5: when the sync of a file has failed, the run has still attempted
\* every file of the manifest and has rewritten the manifest at its end.
C5_FailureIsolation ==
    (exc = "SyncError" /\ pc = "error") =>
      /\ \A p \in Positions(sync_details) :
           \E j \in DOMAIN calls :
             calls[j].run = run /\ calls[j].g = p[1] /\ calls[j].f = p[2]
      /\ calls[Len(calls)].op = "dump"

(* ---- C6 ---- *)
\* C6 as stated: a run that ends in a configuration failure has made no
\* remote call and has not written the manifest.
C6_AbortsBeforeAnyCall ==
    exc \in ConfigErrors =>
      /\ \A j \in DOMAIN calls :
           calls[j].run = run => calls[j].op \notin RemoteOps \cup {"dump"}
      /\ disk = manifest0

\* C6 amended: a run that ends in a configuration failure has made no
\* remote call for the faulty group, for the faulty file entry or for
\* anything after them, and has written the manifest for the groups before
\* the faulty one only; a fault of the manifest itself or of the first group
\* before its first file leaves no remote call and no write.
C6_AbortsBeforeFaultyGroup ==
    exc \in ConfigErrors =>
      /\ pc = "error"
      /\ \A j \in DOMAIN calls :
           (calls[j].run = run /\ calls[j].op \in RemoteOps) =>
             \/ calls[j].g < gi
             \/ calls[j].g = gi /\ calls[j].f < fi
      /\ \A j \in Dumps(run) : calls[j].g < gi
      /\ Cardinality(Dumps(run)) = gi - 1
      /\ (gi = 1 /\ fi = 1) =>
           /\ \A j \in DOMAIN calls : calls[j].op \notin RemoteOps
           /\ disk = manifest0

C6_Witness ==
    /\ exc = "CredentialsError"
    /\ gi = 2
    /\ Cardinality(Dumps(run)) = 1
    /\ \E j \in DOMAIN calls : calls[j].op = "create" /\ calls[j].g = 1

(* ---- C7 ---- *)
FinalId(g, f) ==
    targets[CHOOSE i \in DOMAIN targets :
              targets[i].run = run /\ targets[i].g = g /\ targets[i].f = f].id

\* C7: when a run has returned, the manifest on disk has the groups and
\* the file entries of the manifest the run started from, in the same
\* order; each entry's id is the final id of the target built from that
\* entry, and every other key has the value it had.
C7_RoundTrip ==
    pc = "done" =>
      LET old == json_load(manifest0)
          new == json_load(disk)
      IN  /\ DOMAIN new = DOMAIN old
          /\ \A k \in DOMAIN old \ {"details"} : new[k] = old[k]
          /\ Len(new["details"]) = Len(old["details"])
          /\ \A g \in 1..Len(old["details"]) :
               LET og == old["details"][g]
                   ng == new["details"][g]
               IN  /\ DOMAIN ng = DOMAIN og
                   /\ \A k \in DOMAIN og \ {"files"} : ng[k] = og[k]
                   /\ Len(ng["files"]) = Len(og["files"])
                   /\ \A f \in 1..Len(og["files"]) :
                        LET oe == og["files"][f]
                            ne == ng["files"][f]
                        IN  /\ DOMAIN ne = DOMAIN oe \cup {"id"}
                            /\ \A k \in DOMAIN oe \ {"id"} : ne[k] = oe[k]
                            /\ ne["id"] = FinalId(g, f)

C7_Witness ==
    /\ pc = "done"
    /\ Len(json_load(manifest0)["details"]) = 2
    /\ \E p \in Positions(json_load(manifest0)) :
         /\ "note" \in DOMAIN Entry0(p[1], p[2])
         /\ Entry0(p[1], p[2])["id"] = None
         /\ json_load(disk)["details"][p[1]]["files"][p[2]]["id"] # None
         /\ p[2] = 2

(* ---- C8 ---- *)
\* C8: a sync changes a target's id only from absent to the id a create
\* returned; a target that had an id keeps it whatever the sync did, and
\* its manifest entry has the same id after the run as before.
C8_IdStable ==
    /\ \A i \in DOMAIN targets :
         LET t == targets[i]
         IN  /\ t.id0 # None => t.id = t.id0
             /\ t.id # t.id0 => t.id0 = None /\ CountT("create", t) = 1
    /\ pc = "done" =>
         \A p \in Positions(json_load(manifest0)) :
           get(Entry0(p[1], p[2]), "id", None) # None =>
             json_load(disk)["details"][p[1]]["files"][p[2]]["id"]
               = Entry0(p[1], p[2])["id"]

C8_Witness ==
    /\ pc = "done"
    /\ \E i \in DOMAIN targets :
         /\ targets[i].run = run /\ targets[i].id0 = "X"
         /\ CountT("update", targets[i]) = 1
    /\ \E i \in DOMAIN targets :
         /\ targets[i].run = run /\ targets[i].id0 = "X"
         /\ CountT("write_bytes", targets[i]) = 1

(* ---- C9 ---- *)
\* C9 as stated: when the sync of a file has raised, the run has not
\* written the manifest, and no id created in the run is on disk.
C9_NoWriteAtAll ==
    exc = "SyncError" =>
      /\ Dumps(run) = {}
      /\ \A j \in DOMAIN calls :
           (calls[j].run = run /\ calls[j].op = "create" /\ calls[j].ret # None)
           => calls[j].ret \notin IdsOnDisk

\* C9 amended: when the sync of a file has raised, the run has stopped
\* without a manifest write for the failing group or a later one, so the
\* ids created in the failing group are not on disk; the manifest has been
\* written for each earlier group, and the ids created there are on disk.
C9_NoWriteForFailingGroup ==
    exc = "SyncError" =>
      /\ pc = "error"
      /\ \A j \in Dumps(run) : calls[j].g < gi
      /\ Cardinality(Dumps(run)) = gi - 1
      /\ \A j \in DOMAIN calls :
           (calls[j].run = run /\ calls[j].op = "create" /\ calls[j].ret # None)
           => /\ calls[j].g = gi => calls[j].ret \notin IdsOnDisk
              /\ calls[j].g < gi => calls[j].ret \in IdsOnDisk

C9_Witness ==
    /\ exc = "SyncError"
    /\ gi = 2
    /\ \E j \in DOMAIN calls :
         /\ calls[j].op = "create" /\ calls[j].g = 1
         /\ calls[j].ret \in IdsOnDisk
    /\ \E j \in DOMAIN calls :
         /\ calls[j].op = "create" /\ calls[j].g = 2
         /\ calls[j].ret # None /\ calls[j].ret \notin IdsOnDisk

(* ---- C10 ---- *)
Rank(c) ==
    IF c.op = "credentials" THEN 0
    ELSE IF c.op = "build" THEN 1
    ELSE IF c.op = "dump" THEN MaxFiles + 3
    ELSE 1 + c.f

\* C10: the calls of a run are made in the order of the manifest: group by
\* group, in each group the credentials, then the session, then the files
\* in list order, each file's calls before the next file's, then the write;
\* nothing of a group happens before everything of the group before it.
C10_Sequential ==
    \A i, j \in DOMAIN calls :
      (i < j /\ calls[i].run = calls[j].run) =>
        /\ calls[i].g <= calls[j].g
        /\ calls[i].g = calls[j].g => Rank(calls[i]) <= Rank(calls[j])

C10_Witness ==
    /\ pc = "done"
    /\ \E i, j \in DOMAIN calls :
         /\ calls[i].run = run /\ calls[i].g = 1 /\ calls[i].f = 2
         /\ calls[j].run = run /\ calls[j].g = 2 /\ calls[j].f = 2

====
